---- MODULE Spec2Model ----
(***************************************************************************)
(* Model of superman_api.py: the /deploy submission handler with its       *)
(* request validation and background audit-log task, and the              *)
(* /deploy/stream endpoint driving DeploymentEngine.deploy, an async       *)
(* generator that suspends at every yield and at every sleep.              *)
(*                                                                         *)
(* Text is modelled as a sequence of one-character strings, so that        *)
(* length, lower-casing and substring search are computed.  The           *)
(* "timestamp" field of the emitted records is not modelled.               *)
(***************************************************************************)
EXTENDS Integers, Sequences, FiniteSets, TLC

VARIABLES
    pc,             \* per stream: position of the deploy() generator
    i,              \* per stream: index of the stage the loop is at
    deployment_id,  \* per stream: local variable deployment_id
    out,            \* per stream: records yielded so far, in order
    slept,          \* per stream: number of completed asyncio.sleep(1)
    submitted,      \* /deploy calls handled so far: request and response
    tasks,          \* background tasks added by deploy_project
    server_errors   \* exceptions that reached the ASGI server

vars == <<pc, i, deployment_id, out, slept, submitted, tasks, server_errors>>
streamVars == <<pc, i, deployment_id, out, slept>>
submitVars == <<submitted, tasks, server_errors>>

----------------------------------------------------------------------------
(* Bounds *)

NumStreams == 2
MaxSubmits == 2

Streams == 1..NumStreams

\* Sample values of f"dep_{uuid.uuid4().hex[:8]}"; two calls may collide.
Ids == {"dep_1a2b3c4d", "dep_9f8e7d6c"}

NoId == "unset"

----------------------------------------------------------------------------
(* DeploymentEngine.deploy *)

\* Stage lists with one weight changed, and with two stages exchanged.
stages_heavy_tail ==
    << <<"Validating requirements", 10>>,
       <<"Generating code", 20>>,
       <<"Running security scan", 15>>,
       <<"Provisioning cloud resources", 25>>,
       <<"Deploying containers", 30>>,
       <<"Running smoke tests", 10>> >>

stages_reordered ==
    << <<"Validating requirements", 10>>,
       <<"Running security scan", 15>>,
       <<"Generating code", 20>>,
       <<"Provisioning cloud resources", 25>>,
       <<"Deploying containers", 20>>,
       <<"Running smoke tests", 10>> >>

stages ==
    << <<"Validating requirements", 10>>,
       <<"Generating code", 20>>,
       <<"Running security scan", 15>>,
       <<"Provisioning cloud resources", 25>>,
       <<"Deploying containers", 20>>,
       <<"Running smoke tests", 10>> >>

NumStages == Len(stages)

\* One id held outside the generator and shared by all streams.
EventIdShared(s) == deployment_id[1]

\* The deployment_id a record of stream s carries: the generator's local.
EventId(s) == deployment_id[s]

\* An accumulating progress: the total of the weights up to stage k.
RECURSIVE SumWeights(_)
SumWeights(k) == IF k = 0 THEN 0 ELSE SumWeights(k - 1) + stages[k][2]

StageProgressCumulative(k) == SumWeights(k)

\* The "progress" value of the record for stage k.
StageProgress(k) == stages[k][2]

StageEvent(s, k) ==
    [deployment_id |-> EventId(s),
     stage         |-> stages[k][1],
     progress      |-> StageProgress(k)]

ResultUrl(id) == <<"https://", id, ".supermanapp.cloud">>

TerminalEvent(s) ==
    [deployment_id |-> EventId(s),
     status        |-> "completed",
     url           |-> ResultUrl(EventId(s))]

IsStageEvent(e) == "stage" \in DOMAIN e
IsTerminalEvent(e) == "status" \in DOMAIN e

\* GET /deploy/stream: the generator object is created, its body not yet run.
stream_deployment(s) ==
    /\ pc[s] = "idle"
    /\ pc' = [pc EXCEPT ![s] = "created"]
    /\ UNCHANGED <<i, deployment_id, out, slept, submitVars>>

\* First __anext__: the id is generated and the first record is yielded.
Start(s) ==
    /\ pc[s] = "created"
    /\ \E id \in Ids :
         /\ deployment_id' = [deployment_id EXCEPT ![s] = id]
         /\ i' = [i EXCEPT ![s] = 1]
         /\ out' = [out EXCEPT ![s] = Append(@, StageEvent(s, 1)')]
    /\ pc' = [pc EXCEPT ![s] = "yielded"]
    /\ UNCHANGED <<slept, submitVars>>

\* A loop without the await: the next record follows at once.
ResumeStageNoSleep(s) ==
    /\ pc[s] = "yielded"
    /\ IF i[s] < NumStages
          THEN /\ i' = [i EXCEPT ![s] = @ + 1]
               /\ out' = [out EXCEPT ![s] = Append(@, StageEvent(s, i[s] + 1))]
               /\ pc' = [pc EXCEPT ![s] = "yielded"]
          ELSE /\ out' = [out EXCEPT ![s] = Append(@, TerminalEvent(s))]
               /\ pc' = [pc EXCEPT ![s] = "terminal"]
               /\ UNCHANGED i
    /\ UNCHANGED <<deployment_id, slept, submitVars>>

\* The consumer asks for the next record: the generator resumes after the
\* yield of stage i and suspends in asyncio.sleep(1).
ResumeStage(s) ==
    /\ pc[s] = "yielded"
    /\ pc' = [pc EXCEPT ![s] = "sleeping"]
    /\ UNCHANGED <<i, deployment_id, out, slept, submitVars>>

\* The sleep returns: the loop yields the next stage's record, or, after
\* the last stage, the terminal record.
SleepDone(s) ==
    /\ pc[s] = "sleeping"
    /\ slept' = [slept EXCEPT ![s] = @ + 1]
    /\ IF i[s] < NumStages
          THEN /\ i' = [i EXCEPT ![s] = @ + 1]
               /\ out' = [out EXCEPT ![s] = Append(@, StageEvent(s, i[s] + 1))]
               /\ pc' = [pc EXCEPT ![s] = "yielded"]
          ELSE /\ out' = [out EXCEPT ![s] = Append(@, TerminalEvent(s))]
               /\ pc' = [pc EXCEPT ![s] = "terminal"]
               /\ UNCHANGED i
    /\ UNCHANGED <<deployment_id, submitVars>>

\* The terminal record yielded a second time before the generator returns.
ResumeTerminalAgain(s) ==
    /\ pc[s] = "terminal"
    /\ pc' = [pc EXCEPT ![s] = "done"]
    /\ out' = [out EXCEPT ![s] = Append(@, TerminalEvent(s))]
    /\ UNCHANGED <<i, deployment_id, slept, submitVars>>

\* The consumer asks once more after the terminal record: the generator
\* returns and the stream ends.
ResumeTerminal(s) ==
    /\ pc[s] = "terminal"
    /\ pc' = [pc EXCEPT ![s] = "done"]
    /\ UNCHANGED <<i, deployment_id, out, slept, submitVars>>

\* The consumer disconnects: the response task is cancelled and the
\* generator is closed where it is suspended.  deploy() has no try/finally
\* and no except clause, so nothing else runs.
Cancel(s) ==
    /\ pc[s] \in {"created", "yielded", "sleeping", "terminal"}
    /\ pc' = [pc EXCEPT ![s] = "cancelled"]
    /\ UNCHANGED <<i, deployment_id, out, slept, submitVars>>

----------------------------------------------------------------------------
(* DeploymentRequest: field constraints and validate_requirements *)

MinLength == 10
MaxLength == 1000

LowerLetters == <<"a", "b", "c", "d", "e", "f", "g", "h", "i", "j", "k", "l", "m", "n", "o", "p", "q", "r", "s", "t", "u", "v", "w", "x", "y", "z">>
UpperLetters == <<"A", "B", "C", "D", "E", "F", "G", "H", "I", "J", "K", "L", "M", "N", "O", "P", "Q", "R", "S", "T", "U", "V", "W", "X", "Y", "Z">>
Digits == <<"0", "1", "2", "3", "4", "5", "6", "7", "8", "9">>

Range(f) == {f[k] : k \in DOMAIN f}

\* str.lower() on one character (ASCII letters).
LowerOf == [c \in Range(UpperLetters) |->
               LowerLetters[CHOOSE k \in 1..26 : UpperLetters[k] = c]]

lower_char(c) == IF c \in DOMAIN LowerOf THEN LowerOf[c] ELSE c

\* A validator that forgets .lower().
str_lower_identity(v) == v

str_lower(v) == [k \in 1..Len(v) |-> lower_char(v[k])]

\* bad_word in text
Contains(text, word) ==
    \E p \in 1..(Len(text) - Len(word) + 1) :
        \A j \in 1..Len(word) : text[p + j - 1] = word[j]

bad_words ==
    << <<"d", "r", "o", "p", " ", "t", "a", "b", "l", "e">>,
       <<"r", "m", " ", "-", "r", "f">>,
       <<"s", "u", "d", "o">> >>

\* TRUE when the validator returns v, FALSE when it raises ValueError.
validate_requirements(v) ==
    LET low == str_lower(v)
    IN  ~ \E b \in 1..Len(bad_words) : Contains(low, bad_words[b])

\* Exclusive instead of inclusive length bounds.
requirements_length_ok_strict(v) == Len(v) > MinLength /\ Len(v) < MaxLength

requirements_length_ok(v) == Len(v) >= MinLength /\ Len(v) <= MaxLength

\* pattern="^(aws|azure|gcp)$"
cloud_provider_ok(c) == c \in {"aws", "azure", "gcp"}

None == <<"None">>

LocalChars == Range(LowerLetters) \cup Range(UpperLetters) \cup Range(Digits)
                \cup {"_", ".", "+", "-"}
HostChars == Range(LowerLetters) \cup Range(UpperLetters) \cup Range(Digits)
                \cup {"-"}
TailChars == HostChars \cup {"."}

\* pattern=r"^[a-zA-Z0-9_.+-]+@[a-zA-Z0-9-]+\.[a-zA-Z0-9-.]+$"
notify_email_ok(e) ==
    \/ e = None
    \/ \E a \in 2..Len(e), d \in 2..Len(e) :
         /\ e[a] = "@"
         /\ e[d] = "."
         /\ a + 1 < d
         /\ d < Len(e)
         /\ \A k \in 1..(a - 1) : e[k] \in LocalChars
         /\ \A k \in (a + 1)..(d - 1) : e[k] \in HostChars
         /\ \A k \in (d + 1)..Len(e) : e[k] \in TailChars

\* The request model validates: field constraints first, then the validator.
DeploymentRequest(r) ==
    /\ requirements_length_ok(r.requirements)
    /\ validate_requirements(r.requirements)
    /\ cloud_provider_ok(r.cloud_provider)
    /\ notify_email_ok(r.notify_email)

----------------------------------------------------------------------------
(* Requests the model submits *)

Pad(n) == [k \in 1..n |-> "x"]

RejectTexts ==
    { <<"D", "R", "O", "P", " ", "T", "A", "B", "L", "E", " ", "u", "s", "e", "r", "s">>,
      <<"s", "u", "d", "o", " ", "r", "m", " ", "-", "r", "f", " ", "/">>,
      <<"p", "l", "e", "a", "s", "e", " ", "D", "r", "o", "p", " ", "T", "a", "b", "l", "e">>,
      <<"s", "u", "d", "o">>,
      Pad(MinLength - 4) \o <<"s", "U", "d", "O">>,
      <<"S", "U", "D", "O">> \o Pad(MaxLength - 4),
      Pad(MaxLength - 6) \o <<"r", "m", " ", "-", "R", "f">> }

NearMissTexts ==
    { <<"p", "s", "e", "u", "d", "o", " ", "c", "o", "d", "e">>,
      <<"d", "r", "o", "p", " ", " ", "t", "a", "b", "l", "e", ",", " ", "r", "m", "-", "r", "f">> }

LengthTexts ==
    { <<>>, Pad(MinLength - 1), Pad(MinLength), Pad(MinLength + 1),
      Pad(MaxLength), Pad(MaxLength + 1) }

Emails ==
    { <<"d", "e", "v", "@", "e", "x", "a", "m", "p", "l", "e", ".", "c", "o", "m">>,
      <<"d", "e", "v", "@", "e", "x", "a", "m", "p", "l", "e">> }

Requests ==
    [requirements : RejectTexts \cup NearMissTexts \cup LengthTexts,
     cloud_provider : {"aws"}, notify_email : {None}]
    \cup [requirements : {Pad(MinLength)},
          cloud_provider : {"gcp", "oracle"},
          notify_email : {None}]
    \cup [requirements : {Pad(MinLength)},
          cloud_provider : {"aws"}, notify_email : Emails]

----------------------------------------------------------------------------
(* POST /deploy *)

Ack == [status_code |-> 200, message |-> "Deployment started",
        stream_endpoint |-> "/deploy/stream"]

ValidationErrorResponse == [status_code |-> 422]

ServerErrorResponse == [status_code |-> 500]

LogTask(r, st) ==
    [requirements |-> r.requirements, cloud |-> r.cloud_provider, state |-> st]

\* A variant that awaits log_deployment before returning.
deploy_project_awaits_log(r) ==
    \/ /\ tasks' = Append(tasks, LogTask(r, "posted"))
       /\ submitted' = Append(submitted,
              [request |-> r, response |-> Ack, task |-> Len(tasks) + 1])
       /\ UNCHANGED server_errors
    \/ /\ tasks' = Append(tasks, LogTask(r, "raised"))
       /\ submitted' = Append(submitted,
              [request |-> r, response |-> ServerErrorResponse,
               task |-> Len(tasks) + 1])
       /\ server_errors' = server_errors + 1

\* The handler body: add the background task, return the acknowledgement.
deploy_project(r) ==
    /\ tasks' = Append(tasks, LogTask(r, "scheduled"))
    /\ submitted' = Append(submitted,
           [request |-> r, response |-> Ack, task |-> Len(tasks) + 1])
    /\ UNCHANGED server_errors

\* One POST /deploy: the body is validated into a DeploymentRequest before
\* the handler is called; a validation error is answered with 422.
Submit(r) ==
    /\ Len(submitted) < MaxSubmits
    /\ IF DeploymentRequest(r)
          THEN deploy_project(r)
          ELSE /\ submitted' = Append(submitted,
                      [request |-> r, response |-> ValidationErrorResponse,
                       task |-> 0])
               /\ UNCHANGED <<tasks, server_errors>>
    /\ UNCHANGED streamVars

\* The background task runs after the response has been sent.
\* session.post returns.
log_deployment_posts(t) ==
    /\ tasks[t].state = "scheduled"
    /\ tasks' = [tasks EXCEPT ![t].state = "posted"]
    /\ UNCHANGED <<submitted, server_errors, streamVars>>

\* session.post raises (connection error, DNS failure, ...): nothing in
\* log_deployment catches it; it reaches the server, which logs it.
log_deployment_raises(t) ==
    /\ tasks[t].state = "scheduled"
    /\ tasks' = [tasks EXCEPT ![t].state = "raised"]
    /\ server_errors' = server_errors + 1
    /\ UNCHANGED <<submitted, streamVars>>

----------------------------------------------------------------------------

Init ==
    /\ pc = [s \in Streams |-> "idle"]
    /\ i = [s \in Streams |-> 0]
    /\ deployment_id = [s \in Streams |-> NoId]
    /\ out = [s \in Streams |-> <<>>]
    /\ slept = [s \in Streams |-> 0]
    /\ submitted = <<>>
    /\ tasks = <<>>
    /\ server_errors = 0

Next ==
    \E s \in Streams :
        \/ stream_deployment(s)
        \/ Start(s)
        \/ ResumeStage(s)
        \/ SleepDone(s)
        \/ ResumeTerminal(s)
        \/ Cancel(s)

Spec == Init /\ [][Next]_vars

\* A consumer that keeps reading resumes the generator; the event loop
\* completes every sleep.  Neither a new request nor a disconnect is forced.
Fairness ==
    \A s \in Streams :
        /\ WF_vars(Start(s))
        /\ WF_vars(ResumeStage(s))
        /\ WF_vars(SleepDone(s))
        /\ WF_vars(ResumeTerminal(s))

LiveSpec == Init /\ [][Next]_vars /\ Fairness

\* The submission endpoint; it shares no state with the stream endpoint.
SubmitNext ==
    \/ \E r \in Requests : Submit(r)
    \/ \E t \in 1..Len(tasks) : log_deployment_posts(t)
    \/ \E t \in 1..Len(tasks) : log_deployment_raises(t)

SubmitSpec == Init /\ [][SubmitNext]_vars

----------------------------------------------------------------------------
(* What a stream has emitted *)

StageEvents(s) == SelectSeq(out[s], IsStageEvent)
TerminalEvents(s) == SelectSeq(out[s], IsTerminalEvent)

RECURSIVE RunningSum(_, _)
RunningSum(s, k) ==
    IF k = 0 THEN 0 ELSE RunningSum(s, k - 1) + StageEvents(s)[k].progress

\* The status a stream has recorded: the only status deploy() ever writes
\* is the one in the terminal record.
RecordedStatus(s) ==
    IF TerminalEvents(s) = <<>> THEN "none"
    ELSE TerminalEvents(s)[Len(TerminalEvents(s))].status

IsPrefix(a, b) == Len(a) <= Len(b) /\ SubSeq(b, 1, Len(a)) = a

ExpectedWeights == <<10, 20, 15, 25, 20, 10>>
ExpectedCumulative == <<10, 30, 45, 70, 90, 100>>
ExpectedStageNames ==
    <<"Validating requirements", "Generating code", "Running security scan",
      "Provisioning cloud resources", "Deploying containers",
      "Running smoke tests">>

ExactlyOneCompleted(s) ==
    /\ Len(TerminalEvents(s)) = 1
    /\ TerminalEvents(s)[1].status = "completed"
    /\ IsTerminalEvent(out[s][Len(out[s])])

----------------------------------------------------------------------------
(* C1 *)

----------------------------------------------------------------------------
(* C2 *)

\* C2: the terminal record comes only after all six stage records, the
\* stage records come in the order of the stage list, and no stage record
\* follows the terminal record; a record once emitted stays where it is.
C2_Order ==
    /\ [](\A s \in Streams : \A k \in 1..Len(out[s]) :
            IF k <= 6
               THEN /\ IsStageEvent(out[s][k])
                    /\ ~ IsTerminalEvent(out[s][k])
                    /\ out[s][k].stage = ExpectedStageNames[k]
               ELSE /\ k = 7
                    /\ IsTerminalEvent(out[s][k])
                    /\ ~ IsStageEvent(out[s][k]))
    /\ [][\A s \in Streams : IsPrefix(out[s], out'[s])]_vars

C2_Witness ==
    \E s \in Streams :
        /\ Len(out[s]) = 7
        /\ IsTerminalEvent(out[s][7])
        /\ IsStageEvent(out[s][6])

----------------------------------------------------------------------------
(* C5 *)

CancelledMidPipeline(s) ==
    /\ pc[s] = "cancelled"
    /\ Len(out[s]) \in 1..5

\* C5 as stated: a stream cancelled after stage event k, 1 <= k < 6, has
\* failed or cancelled as its final recorded status, never completed, and
\* emits nothing after the cancellation point.
C5_AsStated ==
    \A s \in Streams : CancelledMidPipeline(s) =>
        /\ RecordedStatus(s) \in {"failed", "cancelled"}
        /\ RecordedStatus(s) # "completed"
        /\ Len(out[s]) = Len(StageEvents(s))

----------------------------------------------------------------------------
(* C6 *)

ExpectedStream(id) ==
    [k \in 1..7 |->
        IF k <= 6
           THEN [deployment_id |-> id, stage |-> ExpectedStageNames[k],
                 progress |-> ExpectedWeights[k]]
           ELSE [deployment_id |-> id, status |-> "completed",
                 url |-> <<"https://", id, ".supermanapp.cloud">>]]

\* C6: with streams interleaved at their suspension points, every record of
\* a stream carries the one deployment_id that stream generated at its
\* start (the terminal url included), what a stream has emitted is a prefix
\* of its own full sequence whatever the others did, a finished stream has
\* emitted all of it with its progress adding up to 100, and a step of one
\* stream changes nothing of another.
C6_Isolation ==
    /\ [](\A s \in Streams :
            /\ out[s] # <<>> => deployment_id[s] \in Ids
            /\ IsPrefix(out[s], ExpectedStream(deployment_id[s]))
            /\ pc[s] = "done" =>
                  /\ out[s] = ExpectedStream(deployment_id[s])
                  /\ RunningSum(s, Len(StageEvents(s))) = 100)
    /\ [][\A s, t \in Streams :
            (s # t /\ <<pc[s], i[s], out[s], slept[s]>>'
                       # <<pc[s], i[s], out[s], slept[s]>>)
            => <<pc[t], i[t], deployment_id[t], out[t], slept[t]>>'
                  = <<pc[t], i[t], deployment_id[t], out[t], slept[t]>>]_vars
    /\ [][\A s \in Streams :
            deployment_id[s] # NoId => deployment_id'[s] = deployment_id[s]]_vars

C6_Witness ==
    \E s, t \in Streams :
        /\ deployment_id[s] \notin {NoId, deployment_id[t]}
        /\ pc[s] = "done"
        /\ pc[t] = "sleeping"
        /\ Len(out[t]) = 3

----------------------------------------------------------------------------
(* C7 *)

\* C7: the running sum of the progress values of the stage records is 100
\* at the sixth stage record and nowhere else; below 100 at every earlier
\* one; a finished run has reached it.
C7_SumReaches100Once ==
    \A s \in Streams :
        /\ \A k \in 1..Len(StageEvents(s)) :
               /\ k < 6 => RunningSum(s, k) < 100
               /\ RunningSum(s, k) = 100 <=> k = 6
        /\ pc[s] \in {"terminal", "done"} => Len(StageEvents(s)) = 6

C7_Witness ==
    \E s \in Streams :
        Len(StageEvents(s)) = 6 /\ RunningSum(s, 6) = 100 /\ pc[s] = "yielded"

----------------------------------------------------------------------------
(* C9 *)

\* C9 as stated: a stage's record is emitted only after that stage's delay
\* has completed (wait, then emit), so a stream never has more stage
\* records than completed delays.
C9_AsStated ==
    \A s \in Streams : Len(StageEvents(s)) <= slept[s]

\* C9 amended: per stage the order is emit, then wait.  Stage k's record is
\* emitted before stage k's delay begins, stage k+1's record only once stage
\* k's delay has completed, and the terminal record only once all six
\* delays have completed; a delay is in progress only for the stage whose
\* record was emitted last.
C9_EmitThenWait ==
    \A s \in Streams :
        /\ StageEvents(s) = <<>> => slept[s] = 0
        /\ (StageEvents(s) # <<>> /\ TerminalEvents(s) = <<>>) =>
               slept[s] = Len(StageEvents(s)) - 1
        /\ TerminalEvents(s) # <<>> =>
               slept[s] = 6 /\ Len(StageEvents(s)) = 6
        /\ pc[s] = "sleeping" => i[s] = Len(StageEvents(s))

C9_Witness ==
    \E s \in Streams :
        pc[s] = "sleeping" /\ Len(StageEvents(s)) = 4 /\ slept[s] = 3

----------------------------------------------------------------------------
(* C10 *)

\* C10: a stream that is started and never cancelled, with a consumer that
\* keeps reading, ends, having emitted exactly one terminal record, last,
\* with status completed and the url built from its deployment_id; nothing
\* is emitted after the stream has ended or after the terminal record; no
\* stream records a failed status.
C10_Completes ==
    /\ \A s \in Streams :
          (pc[s] = "created") ~> (pc[s] \in {"done", "cancelled"})
    /\ [](\A s \in Streams :
            /\ pc[s] = "done" =>
                  /\ ExactlyOneCompleted(s)
                  /\ out[s][Len(out[s])].url =
                        <<"https://", deployment_id[s], ".supermanapp.cloud">>
                  /\ out[s][Len(out[s])].deployment_id = deployment_id[s]
            /\ Len(TerminalEvents(s)) <= 1
            /\ RecordedStatus(s) # "failed")
    /\ [][\A s \in Streams :
            (pc[s] = "done" \/ TerminalEvents(s) # <<>>) =>
                /\ out'[s] = out[s]
                /\ pc[s] = "done" => pc'[s] = "done"]_vars

C10_Witness ==
    \E s \in Streams :
        pc[s] = "done" /\ RecordedStatus(s) = "completed"

----------------------------------------------------------------------------
(* What the claims say about a submission *)

ForbiddenTokens ==
    { <<"d", "r", "o", "p", " ", "t", "a", "b", "l", "e">>,
      <<"r", "m", " ", "-", "r", "f">>,
      <<"s", "u", "d", "o">> }

UpperOf == [c \in Range(LowerLetters) |->
               UpperLetters[CHOOSE k \in 1..26 : LowerLetters[k] = c]]

upper_char(c) == IF c \in DOMAIN UpperOf THEN UpperOf[c] ELSE c

\* v holds token t at position p, each letter in either case.
HoldsAt(v, t, p) ==
    /\ p + Len(t) - 1 <= Len(v)
    /\ \A j \in 1..Len(t) : v[p + j - 1] \in {t[j], upper_char(t[j])}

HasForbiddenToken(v) ==
    \E t \in ForbiddenTokens : \E p \in 1..Len(v) : HoldsAt(v, t, p)

Rejected(e) == e.response.status_code = 422 /\ e.task = 0

\* This step handles one more POST /deploy.
Handled == Len(submitted') = Len(submitted) + 1
Latest == submitted'[Len(submitted')]

\* What has been answered stays answered.
AnswersKept == IsPrefix(submitted, submitted')

----------------------------------------------------------------------------
(* C3 *)

\* C3: a request whose requirements hold a forbidden token in any letter
\* case is answered with a validation error, and handling it changes
\* nothing: no background task is added or run, no stream is touched.
C3_ForbiddenRejected ==
    [][/\ AnswersKept
       /\ (Handled /\ HasForbiddenToken(Latest.request.requirements)) =>
             /\ Rejected(Latest)
             /\ tasks' = tasks
             /\ server_errors' = server_errors
             /\ streamVars' = streamVars]_vars

C3_Witness ==
    /\ Len(submitted) = 2
    /\ Len(tasks) = 1
    /\ submitted[2].request.requirements = <<"D", "R", "O", "P", " ", "T", "A", "B", "L", "E", " ", "u", "s", "e", "r", "s">>
    /\ Rejected(submitted[2])

----------------------------------------------------------------------------
(* C4 *)

\* C4: requirements shorter than 10 or longer than 1000 characters are
\* rejected and nothing is started; requirements of exactly 10 or exactly
\* 1000 characters with no forbidden token, in an otherwise valid request,
\* are accepted and their log task is scheduled.
C4_LengthBounds ==
    [][Handled =>
         LET r == Latest.request
             n == Len(r.requirements)
         IN  /\ SubSeq(submitted', 1, Len(submitted)) = submitted
             /\ (n < 10 \/ n > 1000) => Rejected(Latest) /\ tasks' = tasks
             /\ (n \in {10, 1000}
                  /\ r.cloud_provider \in {"aws", "azure", "gcp"}
                  /\ r.notify_email = None
                  /\ ~ HasForbiddenToken(r.requirements))
                => /\ Latest.response = Ack
                   /\ Latest.task = Len(tasks')
                   /\ Len(tasks') = Len(tasks) + 1]_vars

C4_Witness ==
    \E j, k \in 1..Len(submitted) :
        /\ Len(submitted[j].request.requirements) = 1000
        /\ submitted[j].response = Ack
        /\ Len(submitted[k].request.requirements) = 1001
        /\ Rejected(submitted[k])

----------------------------------------------------------------------------
(* C8 *)

\* C8: every accepted request is answered with the acknowledgement, and the
\* answer stays the acknowledgement whether the log post succeeds or
\* raises; the failure reaches the server's log only.
C8_LogFailureHarmless ==
    /\ [](\A k \in 1..Len(submitted) :
            LET e == submitted[k]
            IN  /\ (e.task # 0 \/ ~ Rejected(e)) =>
                      e.response =
                         [status_code |-> 200,
                          message |-> "Deployment started",
                          stream_endpoint |-> "/deploy/stream"]
                /\ e.response.status_code \in {200, 422})
    /\ [][\A k \in 1..Len(submitted) : submitted'[k] = submitted[k]]_vars

C8_Witness ==
    \E k \in 1..Len(submitted) :
        /\ submitted[k].task # 0
        /\ tasks[submitted[k].task].state = "raised"
        /\ submitted[k].response = Ack
        /\ server_errors > 0

====
